---- MODULE Spec2Model ----
(***************************************************************************)
(* A model of the dynamic-domain crate: the Value / Domain data types, the *)
(* bound normalizer util::convert_to_secluded, the narrowing operators     *)
(* Domain::gt and Domain::lt, the renderer Domain::repr and the enumerator *)
(* Domain::generate with its callback.                                     *)
(*                                                                         *)
(* Integers are i32 in the crate.  Every value drawn here lies within a    *)
(* few units of zero and the enumeration is capped at MaxEmit callbacks,   *)
(* so no arithmetic of the model comes near the i32 limits.                *)
(***************************************************************************)
EXTENDS Integers, Sequences, FiniteSets, TLC

VARIABLES
    d,        \* the domain value the caller currently holds
    pure,     \* TRUE iff d was obtained from new() by gt / lt calls only
    last,     \* the most recent call: [op, arg, recv]
    text,     \* the String returned by the most recent repr call
    pc,       \* "idle", or the position inside a running generate call
    todo,     \* the domains generate still has to walk (its recursion)
    v,        \* generate's loop variable v
    b,        \* generate's loop bound b, an Option<i32>
    f,        \* generate's step function f: "inc" or "dec"
    emitted   \* the values passed to the receiver callback, in call order

vars == <<d, pure, last, text, pc, todo, v, b, f, emitted>>

---------------------------------------------------------------------------
(* Bounds of the model *)

\* the values handed to gt / lt and to the constructors are -MaxNeg..MaxVal
MaxNeg == 1
MaxVal == 10
\* a directly constructed Union has at most MaxUnion children
MaxUnion == 2

Vals == (0 - MaxNeg)..MaxVal

\* the receiver is called at most MaxEmit times in one generate call; every
\* interval with an integer in it that the model builds is shorter than this
MaxEmit == MaxVal + MaxNeg + 3

\* the integers the integer sets of domains are compared on: every finite
\* bound of the model lies at least two inside this window
Window == (0 - MaxNeg - 4)..(MaxVal + 4)

---------------------------------------------------------------------------
(* enum Value<T> *)

Included(i) == [tag |-> "Included", n |-> i]
Secluded(i) == [tag |-> "Secluded", n |-> i]
Infinite == [tag |-> "Infinite"]

Value == {Included(i) : i \in Vals} \cup {Secluded(i) : i \in Vals} \cup {Infinite}

(* enum Domain<T> *)

Union(domains) == [kind |-> "Union", items |-> domains]
Domain(left, right) == [kind |-> "Domain", l |-> left, r |-> right]
None == [kind |-> "None"]

\* Option<i32>
Some(i) == <<i>>
NoneOpt == <<>>

\* the characters of the rendering; a character outside ASCII is written by
\* its code point
EMPTY == "U+2205"
UNION_CHAR == "U+22C3"
INFINITY == "U+221E"

---------------------------------------------------------------------------
(* util::convert_to_secluded *)

\* variant: the Infinite arm yields the default 0 instead of returning None
convert_to_secluded_InfiniteZero(value, gt_side) ==
    CASE value.tag = "Included" ->
            IF gt_side THEN <<value.n - 1>> ELSE <<value.n + 1>>
      [] value.tag = "Secluded" -> <<value.n>>
      [] value.tag = "Infinite" -> <<0>>

convert_to_secluded(value, gt_side) ==
    CASE value.tag = "Included" ->
            IF gt_side THEN Some(value.n - 1) ELSE Some(value.n + 1)
      [] value.tag = "Secluded" -> Some(value.n)
      [] value.tag = "Infinite" -> NoneOpt

\* the side flag of convert_to_secluded at the two call sites: lower side in
\* gt, upper side in lt
GtSide == TRUE
LtSide == FALSE

(* Domain::new *)
new == Domain(Infinite, Infinite)

\* variants of gt: reversed turns the two comparisons into <, fresh returns
\* Domain::new() where gt returns self.clone(), incl builds an Included bound
\* in the Infinite arm
gt_variant(self, value, reversed, fresh, incl) ==
    LET conv == convert_to_secluded(value, GtSide) IN
    IF conv = NoneOpt THEN None
    ELSE
      LET secluded_value == conv[1]
          unchanged == IF fresh THEN new ELSE self
          tighter(i) == IF reversed THEN secluded_value < i ELSE secluded_value > i
      IN
      IF self.kind = "Domain" THEN
        CASE self.l.tag = "Included" ->
               IF tighter(self.l.n)
                 THEN Domain(Included(secluded_value), self.r)
                 ELSE unchanged
          [] self.l.tag = "Secluded" ->
               IF tighter(self.l.n)
                 THEN Domain(Secluded(secluded_value), self.r)
                 ELSE unchanged
          [] self.l.tag = "Infinite" ->
               IF incl THEN Domain(Included(secluded_value), self.r)
                       ELSE Domain(Secluded(secluded_value), self.r)
      ELSE unchanged

gt_Reversed(self, value) == gt_variant(self, value, TRUE, FALSE, FALSE)
gt_FreshFallthrough(self, value) == gt_variant(self, value, FALSE, TRUE, FALSE)
gt_InfiniteIncluded(self, value) == gt_variant(self, value, FALSE, FALSE, TRUE)

(* Domain::gt *)
gt(self, value) ==
    LET conv == convert_to_secluded(value, GtSide) IN
    IF conv = NoneOpt THEN None
    ELSE
      LET secluded_value == conv[1] IN
      IF self.kind = "Domain" THEN
        LET left == self.l
            right == self.r
        IN CASE left.tag = "Included" ->
                  IF secluded_value > left.n
                    THEN Domain(Included(secluded_value), right)
                    ELSE self
             [] left.tag = "Secluded" ->
                  IF secluded_value > left.n
                    THEN Domain(Secluded(secluded_value), right)
                    ELSE self
             [] left.tag = "Infinite" ->
                  Domain(Secluded(secluded_value), right)
      ELSE self

(* Domain::lt *)
lt(self, value) ==
    LET conv == convert_to_secluded(value, LtSide) IN
    IF conv = NoneOpt THEN None
    ELSE
      LET secluded_value == conv[1] IN
      IF self.kind = "Domain" THEN
        LET left == self.l
            right == self.r
        IN CASE right.tag = "Included" ->
                  IF secluded_value < right.n
                    THEN Domain(left, Included(secluded_value))
                    ELSE self
             [] right.tag = "Secluded" ->
                  IF secluded_value < right.n
                    THEN Domain(left, Secluded(secluded_value))
                    ELSE self
             [] right.tag = "Infinite" ->
                  Domain(left, Secluded(secluded_value))
      ELSE self

---------------------------------------------------------------------------
(* Domain::repr.  A String is the sequence of its characters. *)

Digit(k) == <<"0", "1", "2", "3", "4", "5", "6", "7", "8", "9">>[k + 1]

RECURSIVE Digits(_)
Digits(n) == IF n < 10 THEN <<Digit(n)>> ELSE Append(Digits(n \div 10), Digit(n % 10))

\* format!("{}", i) of an i32
Display(i) == IF i < 0 THEN <<"-">> \o Digits(0 - i) ELSE Digits(i)

RECURSIVE join(_, _)
join(strings, sep) ==
    IF strings = <<>> THEN <<>>
    ELSE IF Len(strings) = 1 THEN strings[1]
    ELSE strings[1] \o <<sep>> \o join(Tail(strings), sep)

\* variant: the upper Included arm closes with the parenthesis of the
\* Secluded arm
RECURSIVE repr_UpperParen(_)
repr_UpperParen(self) ==
    CASE self.kind = "Union" ->
            join([k \in 1..Len(self.items) |-> repr_UpperParen(self.items[k])], UNION_CHAR)
      [] self.kind = "Domain" ->
            (CASE self.l.tag = "Included" -> <<"[">> \o Display(self.l.n)
               [] self.l.tag = "Secluded" -> <<"(">> \o Display(self.l.n)
               [] self.l.tag = "Infinite" -> <<"(", "-", INFINITY>>)
            \o <<";">> \o
            (CASE self.r.tag = "Included" -> Display(self.r.n) \o <<")">>
               [] self.r.tag = "Secluded" -> Display(self.r.n) \o <<")">>
               [] self.r.tag = "Infinite" -> <<INFINITY, ")">>)
      [] self.kind = "None" -> <<EMPTY>>

RECURSIVE repr(_)
repr(self) ==
    CASE self.kind = "Union" ->
            join([k \in 1..Len(self.items) |-> repr(self.items[k])], UNION_CHAR)
      [] self.kind = "Domain" ->
            (CASE self.l.tag = "Included" -> <<"[">> \o Display(self.l.n)
               [] self.l.tag = "Secluded" -> <<"(">> \o Display(self.l.n)
               [] self.l.tag = "Infinite" -> <<"(", "-", INFINITY>>)
            \o <<";">> \o
            (CASE self.r.tag = "Included" -> Display(self.r.n) \o <<"]">>
               [] self.r.tag = "Secluded" -> Display(self.r.n) \o <<")">>
               [] self.r.tag = "Infinite" -> <<INFINITY, ")">>)
      [] self.kind = "None" -> <<EMPTY>>

---------------------------------------------------------------------------
(* Domain::generate, the Domain arm: the choice of v, b and f *)

from_l(self) == self.l.tag # "Infinite"
from_r(self) == self.r.tag # "Infinite"

start_v(self) ==
    IF from_l(self)
      THEN CASE self.l.tag = "Included" -> self.l.n
             [] self.l.tag = "Secluded" -> self.l.n + 1
             [] OTHER -> 0
      ELSE CASE self.r.tag = "Included" -> self.r.n
             [] self.r.tag = "Secluded" -> self.r.n - 1
             [] OTHER -> 0

bound_b(self) ==
    IF from_l(self)
      THEN CASE self.r.tag = "Included" -> Some(self.r.n)
             [] self.r.tag = "Secluded" -> Some(self.r.n - 1)
             [] OTHER -> NoneOpt
      ELSE CASE self.l.tag = "Included" -> Some(self.l.n)
             [] self.l.tag = "Secluded" -> Some(self.l.n + 1)
             [] OTHER -> NoneOpt

\* variant: the descending branch steps with n + 1 as the ascending one does
step_f_AlwaysInc(self) == "inc"

step_f(self) == IF from_l(self) THEN "inc" ELSE "dec"

apply_f(g, n) == IF g = "inc" THEN n + 1 ELSE n - 1

---------------------------------------------------------------------------
(* The domains a caller constructs directly (the enum is public) *)

Kids == { None,
          Domain(Included(0), Secluded(2)),
          Domain(Secluded(1), Included(3)),
          Domain(Secluded(2), Infinite) }

UnionsOf(S, n) == {Union(s) : s \in UNION {[1..k -> S] : k \in 0..n}}

Constructible ==
    {None}
    \cup {Domain(left, right) : left \in Value, right \in Value}
    \cup UnionsOf(Kids, MaxUnion)
    \cup {Union(<<u>>) : u \in UnionsOf(Kids, 1)}

Call(op, arg, recv) == [op |-> op, arg |-> arg, recv |-> recv]

NoText == <<>>

Init ==
    /\ \/ d = new /\ pure = TRUE /\ last = Call("new", Infinite, None)
       \/ d \in Constructible /\ pure = FALSE /\ last = Call("construct", Infinite, None)
    /\ text = NoText
    /\ pc = "idle"
    /\ todo = <<>>
    /\ v = 0
    /\ b = NoneOpt
    /\ f = "inc"
    /\ emitted = <<>>

Idle == UNCHANGED <<pc, todo, v, b, f>>

New ==
    /\ pc = "idle"
    /\ d' = new
    /\ pure' = TRUE
    /\ last' = Call("new", Infinite, None)
    /\ text' = NoText
    /\ emitted' = <<>>
    /\ Idle

Gt ==
    /\ pc = "idle"
    /\ \E value \in Value :
         /\ d' = gt(d, value)
         /\ last' = Call("gt", value, d)
    /\ text' = NoText
    /\ emitted' = <<>>
    /\ UNCHANGED pure
    /\ Idle

Lt ==
    /\ pc = "idle"
    /\ \E value \in Value :
         /\ d' = lt(d, value)
         /\ last' = Call("lt", value, d)
    /\ text' = NoText
    /\ emitted' = <<>>
    /\ UNCHANGED pure
    /\ Idle

Repr ==
    /\ pc = "idle"
    /\ text' = repr(d)
    /\ last' = Call("repr", Infinite, d)
    /\ emitted' = <<>>
    /\ UNCHANGED <<d, pure>>
    /\ Idle

\* the call of generate on d
Generate ==
    /\ pc = "idle"
    /\ pc' = "generate"
    /\ todo' = <<d>>
    /\ last' = Call("generate", Infinite, d)
    /\ text' = NoText
    /\ emitted' = <<>>
    /\ UNCHANGED <<d, pure, v, b, f>>

\* generate enters its match on the next domain to walk
GenMatch ==
    /\ pc = "generate"
    /\ todo # <<>>
    /\ LET self == Head(todo) IN
       CASE self.kind = "Union" ->
              /\ todo' = self.items \o Tail(todo)
              /\ UNCHANGED <<pc, v, b, f>>
         [] self.kind = "None" ->
              /\ todo' = Tail(todo)
              /\ UNCHANGED <<pc, v, b, f>>
         [] self.kind = "Domain" ->
              IF ~from_l(self) /\ ~from_r(self)
                THEN /\ todo' = Tail(todo)
                     /\ UNCHANGED <<pc, v, b, f>>
                ELSE /\ pc' = "loop"
                     /\ v' = start_v(self)
                     /\ b' = bound_b(self)
                     /\ f' = step_f(self)
                     /\ UNCHANGED todo
    /\ UNCHANGED <<d, pure, last, text, emitted>>

\* one iteration of generate's loop: the callback, the test, the step
GenLoop ==
    /\ pc = "loop"
    /\ Len(emitted) < MaxEmit
    /\ emitted' = Append(emitted, v)
    /\ IF b # NoneOpt /\ v = b[1]
         THEN /\ pc' = "generate"
              /\ todo' = Tail(todo)
              /\ v' = 0
              /\ b' = NoneOpt
              /\ f' = "inc"
         ELSE /\ v' = apply_f(f, v)
              /\ UNCHANGED <<pc, todo, b, f>>
    /\ UNCHANGED <<d, pure, last, text>>

\* the outermost generate call returns
GenReturn ==
    /\ pc = "generate"
    /\ todo = <<>>
    /\ pc' = "idle"
    /\ UNCHANGED <<d, pure, last, text, todo, v, b, f, emitted>>

Next == New \/ Gt \/ Lt \/ Repr \/ Generate \/ GenMatch \/ GenLoop \/ GenReturn

Spec == Init /\ [][Next]_vars

---------------------------------------------------------------------------
(* What a domain and a rendering mean, for the properties below *)

Range(seq) == {seq[k] : k \in 1..Len(seq)}

Returned(op) == pc = "idle" /\ last.op = op

AboveLower(bnd, n) ==
    CASE bnd.tag = "Included" -> n >= bnd.n
      [] bnd.tag = "Secluded" -> n > bnd.n
      [] bnd.tag = "Infinite" -> TRUE

BelowUpper(bnd, n) ==
    CASE bnd.tag = "Included" -> n <= bnd.n
      [] bnd.tag = "Secluded" -> n < bnd.n
      [] bnd.tag = "Infinite" -> TRUE

\* the integers of the window that belong to a domain
RECURSIVE IntSet(_)
IntSet(dom) ==
    CASE dom.kind = "None" -> {}
      [] dom.kind = "Domain" ->
            {n \in Window : AboveLower(dom.l, n) /\ BelowUpper(dom.r, n)}
      [] dom.kind = "Union" ->
            UNION {IntSet(dom.items[k]) : k \in 1..Len(dom.items)}

\* the integer immediately inside a finite lower / upper bound
FirstInside(bnd) == IF bnd.tag = "Included" THEN bnd.n ELSE bnd.n + 1
LastInside(bnd) == IF bnd.tag = "Included" THEN bnd.n ELSE bnd.n - 1

Finite(bnd) == bnd.tag # "Infinite"
BothFinite(dom) == dom.kind = "Domain" /\ Finite(dom.l) /\ Finite(dom.r)

Narrowed == last.op \in {"gt", "lt"}

\* reading a rendered interval back: the digits, the sign, the brackets
DigitValue(c) ==
    CASE c = "0" -> 0 [] c = "1" -> 1 [] c = "2" -> 2 [] c = "3" -> 3
      [] c = "4" -> 4 [] c = "5" -> 5 [] c = "6" -> 6 [] c = "7" -> 7
      [] c = "8" -> 8 [] c = "9" -> 9

RECURSIVE ParseNat(_)
ParseNat(s) ==
    IF Len(s) = 1 THEN DigitValue(s[1])
    ELSE 10 * ParseNat(SubSeq(s, 1, Len(s) - 1)) + DigitValue(s[Len(s)])

ParseInt(s) == IF s[1] = "-" THEN 0 - ParseNat(Tail(s)) ELSE ParseNat(s)

SemiAt(t) == CHOOSE k \in 1..Len(t) : t[k] = ";"

\* the bounds a rendered interval shows
ShownLower(t) ==
    LET tok == SubSeq(t, 2, SemiAt(t) - 1) IN
    IF tok = <<"-", "U+221E">> THEN [tag |-> "Infinite"]
    ELSE [tag |-> IF t[1] = "[" THEN "Included" ELSE "Secluded", n |-> ParseInt(tok)]

ShownUpper(t) ==
    LET tok == SubSeq(t, SemiAt(t) + 1, Len(t) - 1) IN
    IF tok = <<"U+221E">> THEN [tag |-> "Infinite"]
    ELSE [tag |-> IF t[Len(t)] = "]" THEN "Included" ELSE "Secluded", n |-> ParseInt(tok)]

\* the integers of the window that satisfy the inequality a rendering shows
Satisfying(t) ==
    {n \in Window : AboveLower(ShownLower(t), n) /\ BelowUpper(ShownUpper(t), n)}

---------------------------------------------------------------------------
(* C1 *)

\* C1: on an interval with two finite bounds built from new() by gt and lt
\* calls, every value generate passes to the callback satisfies the
\* inequality repr() shows, and when generate has returned the values passed
\* are exactly the integers satisfying it (none at all when no integer does).
C1_GenerateMatchesRepr ==
    (last.op = "generate" /\ pure /\ BothFinite(d)) =>
        /\ Range(emitted) \subseteq Satisfying(repr(d))
        /\ Returned("generate") => Range(emitted) = Satisfying(repr(d))

---------------------------------------------------------------------------
(* C2 *)

HalfLine(op, value) ==
    IF op = "gt" THEN {n \in Window : AboveLower(value, n)}
                 ELSE {n \in Window : BelowUpper(value, n)}

\* C2: for an Interval receiver and a finite value, the integer set of the
\* result of gt / lt is the receiver's integer set intersected with the
\* half-line of the constraint.
C2_NarrowIsIntersection ==
    (Narrowed /\ last.recv.kind = "Domain" /\ Finite(last.arg)) =>
        IntSet(d) = IntSet(last.recv) \cap HalfLine(last.op, last.arg)

---------------------------------------------------------------------------
(* C3 *)

\* C3: new().lt(Included(5)).gt(Secluded(3)).gt(Secluded(1)) renders "(3;4)".
C3_ChainRenders ==
    ( /\ pure
      /\ last.op = "gt"
      /\ last.arg = Secluded(1)
      /\ last.recv = gt(lt(new, Included(5)), Secluded(3)) ) =>
        repr(d) = <<"(", "3", ";", "4", ")">>

---------------------------------------------------------------------------
(* C4 *)

\* new bound no looser than the old one, as lower bounds / as upper bounds
LowerNotLowered(old, bnd) ==
    old.tag = "Infinite" \/
    (bnd.tag # "Infinite" /\ bnd.n >= old.n /\ FirstInside(bnd) >= FirstInside(old))

UpperNotRaised(old, bnd) ==
    old.tag = "Infinite" \/
    (bnd.tag # "Infinite" /\ bnd.n <= old.n /\ LastInside(bnd) <= LastInside(old))

\* C4: narrowing is monotonic: the integer set of d.gt(x) and of d.lt(x) is a
\* subset of that of d; an Interval result of gt on an Interval has a lower
\* bound no lower than before and the same upper bound, and symmetrically
\* for lt.
C4_NarrowingMonotonic ==
    Narrowed =>
        /\ IntSet(d) \subseteq IntSet(last.recv)
        /\ (last.recv.kind = "Domain" /\ d.kind = "Domain") =>
              IF last.op = "gt"
                THEN LowerNotLowered(last.recv.l, d.l) /\ d.r = last.recv.r
                ELSE UpperNotRaised(last.recv.r, d.r) /\ d.l = last.recv.l

\* a gt call that raised the lower bound of an interval with an Included
\* lower bound
C4_Witness ==
    /\ last.op = "gt"
    /\ last.recv.kind = "Domain"
    /\ last.recv.l.tag = "Included"
    /\ d.kind = "Domain"
    /\ d.l.n > last.recv.l.n
    /\ IntSet(d) # IntSet(last.recv)

---------------------------------------------------------------------------
(* C5 *)

NotInterval(dom) == dom.kind \in {"Union", "None"}

\* C5 as first stated: on a Union or None receiver gt and lt return a domain
\* equal to the receiver, for every value, Infinite included.
C5_NoOpForEveryValue ==
    (Narrowed /\ NotInterval(last.recv)) => d = last.recv

\* C5: on a Union or None receiver gt and lt return a domain equal to the
\* receiver for every Included or Secluded value; for the Infinite value they
\* return None whatever the receiver is.
C5_NoOpForFiniteValue ==
    (Narrowed /\ NotInterval(last.recv)) =>
        IF Finite(last.arg) THEN d = last.recv ELSE d = None

\* gt with a finite value has been applied to a Union with children
C5_Witness ==
    /\ last.op = "gt"
    /\ last.recv.kind = "Union"
    /\ Len(last.recv.items) = 2
    /\ Finite(last.arg)
    /\ d = last.recv

---------------------------------------------------------------------------
(* C6 *)

\* C6: on an interval with two finite bounds the values passed to the
\* callback are, in order, the integer immediately inside the lower bound
\* and then each next integer, never going past the integer immediately
\* inside the upper bound, and when generate has returned all of them up to
\* that integer have been passed, each once.
C6_AscendingWithinBounds ==
    (last.op = "generate" /\ BothFinite(d)) =>
        /\ \A k \in 1..Len(emitted) :
              /\ emitted[k] = FirstInside(d.l) + (k - 1)
              /\ emitted[k] <= LastInside(d.r)
        /\ Returned("generate") =>
              Len(emitted) = LastInside(d.r) - FirstInside(d.l) + 1

---------------------------------------------------------------------------
(* C7 *)

\* C7: narrowing is idempotent: applying gt (lt) with the same value to the
\* result of gt (lt) returns that result again.
C7_NarrowingIdempotent ==
    /\ last.op = "gt" => gt(d, last.arg) = d
    /\ last.op = "lt" => lt(d, last.arg) = d

\* a gt call has raised the Included lower bound of an interval, and one
\* more gt with the same value returns the same interval
C7_Witness ==
    /\ last.op = "gt"
    /\ last.recv.kind = "Domain"
    /\ last.recv.l.tag = "Included"
    /\ last.arg.tag = "Included"
    /\ d # last.recv
    /\ gt(d, last.arg) = d

---------------------------------------------------------------------------
(* C8 *)

LowerToken(bnd) ==
    CASE bnd.tag = "Included" -> <<"[">> \o Display(bnd.n)
      [] bnd.tag = "Secluded" -> <<"(">> \o Display(bnd.n)
      [] bnd.tag = "Infinite" -> <<"(", "-", "U+221E">>

UpperToken(bnd) ==
    CASE bnd.tag = "Included" -> Display(bnd.n) \o <<"]">>
      [] bnd.tag = "Secluded" -> Display(bnd.n) \o <<")">>
      [] bnd.tag = "Infinite" -> <<"U+221E", ")">>

RECURSIVE Canonical(_)
RECURSIVE CanonicalJoined(_)
Canonical(dom) ==
    CASE dom.kind = "None" -> <<"U+2205">>
      [] dom.kind = "Domain" -> LowerToken(dom.l) \o <<";">> \o UpperToken(dom.r)
      [] dom.kind = "Union" -> CanonicalJoined(dom.items)
CanonicalJoined(items) ==
    IF items = <<>> THEN <<>>
    ELSE IF Len(items) = 1 THEN Canonical(items[1])
    ELSE Canonical(items[1]) \o <<"U+22C3">> \o CanonicalJoined(Tail(items))

\* C8: repr returns the canonical notation of every domain: the empty-set
\* sign for None, lower token, ";" and upper token for an Interval (and the
\* bounds read back from the text are the interval's), the children's
\* renderings joined by the union sign for a Union; new() renders "(-oo;oo)",
\* Interval(Included(5), Secluded(10)) "[5;10)", new().gt(Secluded(5)) "(5;oo)".
C8_ReprCanonical ==
    Returned("repr") =>
        /\ text = Canonical(d)
        /\ d.kind = "Domain" => (ShownLower(text) = d.l /\ ShownUpper(text) = d.r)
        /\ d = new => text = <<"(", "-", "U+221E", ";", "U+221E", ")">>
        /\ d = Domain(Included(5), Secluded(10)) =>
              text = <<"[", "5", ";", "1", "0", ")">>
        /\ d = gt(new, Secluded(5)) => text = <<"(", "5", ";", "U+221E", ")">>

\* repr has rendered a Union of two intervals, one with an Included upper
\* bound
C8_Witness ==
    /\ Returned("repr")
    /\ d = Union(<<Domain(Included(0), Secluded(2)), Domain(Secluded(1), Included(3))>>)
    /\ text = <<"[", "0", ";", "2", ")", "U+22C3", "(", "1", ";", "3", "]">>

---------------------------------------------------------------------------
(* C9 *)

OneInfinite(dom) == dom.kind = "Domain" /\ (Finite(dom.l) # Finite(dom.r))

\* C9 as first stated: generate never returns on an interval with at least
\* one Infinite bound.
C9_NeverReturnsIfAnyInfinite ==
    (last.op = "generate" /\ d.kind = "Domain" /\ (~Finite(d.l) \/ ~Finite(d.r))) =>
        ~Returned("generate")

\* C9: generate never returns on an interval with exactly one Infinite
\* bound: with the lower bound finite it passes the integer immediately
\* inside it and then each next integer, with the upper bound finite the
\* integer immediately inside it and then each previous integer, and its
\* loop has no bound to stop at; on the interval with two Infinite bounds it
\* passes nothing to the callback.
C9_OneInfiniteNeverReturns ==
    (last.op = "generate" /\ d.kind = "Domain") =>
        /\ OneInfinite(d) =>
              /\ ~Returned("generate")
              /\ pc = "loop" => b = NoneOpt
              /\ \A k \in 1..Len(emitted) :
                    emitted[k] = IF Finite(d.l) THEN FirstInside(d.l) + (k - 1)
                                                ELSE LastInside(d.r) - (k - 1)
        /\ (~Finite(d.l) /\ ~Finite(d.r)) => emitted = <<>>

\* generate is walking down from the upper bound of an interval without a
\* lower bound and has called the callback three times
C9_Witness ==
    /\ last.op = "generate"
    /\ d = Domain(Infinite, Secluded(5))
    /\ pc = "loop"
    /\ emitted = <<4, 3, 2>>

---------------------------------------------------------------------------
(* C10 *)

\* C10: every domain obtained from new() by gt and lt calls is None or one
\* Interval whose bounds are each Secluded or Infinite (never Included, never
\* a Union).
C10_ChainShape ==
    pure =>
        \/ d = None
        \/ /\ d.kind = "Domain"
           /\ d.l.tag \in {"Secluded", "Infinite"}
           /\ d.r.tag \in {"Secluded", "Infinite"}

\* a chain from new() has narrowed both sides with Included values
C10_Witness ==
    /\ pure
    /\ last.op = "gt"
    /\ last.arg.tag = "Included"
    /\ last.recv.kind = "Domain"
    /\ last.recv.l.tag = "Infinite"
    /\ d.kind = "Domain"
    /\ d.l.tag = "Secluded"
    /\ d.r.tag = "Secluded"

====
